---------------------------- MODULE Spec2Model ----------------------------
(***************************************************************************)
(* minfs-docker-volume: the volume driver of src/main.go as a state        *)
(* machine.  One minfsDriver instance serves the requests docker sends;    *)
(* every request runs on its own goroutine (a thread of Threads), takes    *)
(* the driver's RWMutex, runs its handler and releases the mutex on        *)
(* return (defer d.Unlock()).                                              *)
(*                                                                         *)
(* A request is modelled in two steps: the dispatch, which acquires the    *)
(* mutex (Lock or RLock) and fixes the request's arguments, and the        *)
(* handler, which is the whole body of the method up to and including the  *)
(* deferred unlock.  The outcomes of the operating-system calls a handler  *)
(* makes (os.Lstat, os.MkdirAll, os.RemoveAll, exec.Command(...).Run())    *)
(* are inputs of the handler's action.                                     *)
(***************************************************************************)
EXTENDS Integers, Sequences, FiniteSets, TLC

(***************************************************************************)
(* Bounds of the model.                                                    *)
(***************************************************************************)
NumThreads == 3      \* goroutines serving requests concurrently
MaxHist == 4         \* calls recorded by the single-volume scenario

Threads == 1..NumThreads

(***************************************************************************)
(* Inputs.                                                                 *)
(***************************************************************************)
VolumeNames == {"", "a", "b"}

OptionKeys == {"endpoint", "bucket", "access-key", "secret-key"}

\* r.Options: a Go map (possibly nil) from option name to value.
NilOptions == [isNil |-> TRUE, m |-> <<>>]
MakeOptions(f) == [isNil |-> FALSE, m |-> f]
OptionsA ==
    [k \in OptionKeys |->
        CASE k = "endpoint" -> "https://play.minio.io:9000"
          [] k = "bucket" -> "bucket1"
          [] k = "access-key" -> "AK"
          [] k = "secret-key" -> "SK"]
OptionsB == [OptionsA EXCEPT !["bucket"] = "bucket2"]
Without(f, k) == [x \in (DOMAIN f) \ {k} |-> f[x]]
OptionValues ==
    { NilOptions, MakeOptions(OptionsA), MakeOptions(OptionsB),
      MakeOptions([OptionsA EXCEPT !["endpoint"] = ""]),
      MakeOptions(Without(OptionsA, "bucket")),
      MakeOptions([OptionsA EXCEPT !["access-key"] = ""]),
      MakeOptions(Without(OptionsA, "secret-key")) }

\* r.Options[k]: a Go map lookup yields "" for a missing key.
Opt(o, k) == IF k \in DOMAIN o.m THEN o.m[k] ELSE ""

(***************************************************************************)
(* Paths.  filepath.Join joins the non-empty elements with a separator;    *)
(* a path is the sequence of its elements.                                 *)
(***************************************************************************)
mountRoot == "/tmp"
Join(root, name) == SelectSeq(<<root, name>>, LAMBDA e : e # "")
NoPath == <<>>
Paths == { Join(mountRoot, n) : n \in VolumeNames \ {""} }

(***************************************************************************)
(* Error texts of the responses.                                           *)
(***************************************************************************)
ErrNameEmpty == "Name of the driver cannot be empty."
ErrNoOptions == "No options provided."
ErrEndpoint == "endpoint option cannot be empty."
ErrBucket == "bucket option cannot be empty."
ErrAccessKey == "access-key option cannot be empty"
ErrSecretKey == "secret-key cannot be empty."
ErrNotFound == "volume not found"
ErrInUse == "volume is currently used by a container"
ErrNotDir == "already exist and it's not a directory"
ErrOS == "os: err.Error()"
ErrExec == "exec: err.Error()"

\* volume.Response
Response(err, mountpoint, vol, vols, scope) ==
    [Err |-> err, Mountpoint |-> mountpoint, Volume |-> vol, Volumes |-> vols,
     Scope |-> scope]
OkResponse == Response("", NoPath, {}, {}, "")
errorResponse(err) == Response(err, NoPath, {}, {}, "")

(***************************************************************************)
(* State.                                                                  *)
(***************************************************************************)
VARIABLES
    volumes,     \* d.volumes: name -> mountInfo (serverconfig, mountPoint, connections)
    fs,          \* the local file system at each mount path: "absent", "dir", "file"
    mountTable,  \* mount paths on which a backend mount is active
    writer,      \* the thread holding d.Lock(), or 0
    readers,     \* the threads holding d.RLock()
    req,         \* req[t]: the request thread t is serving, op "idle" when none
    ret,         \* the call that returned last and its response, until the next dispatch
    ran,         \* the command (mount, umount) or os.RemoveAll that call's handler ran, if any, and its error
    created,     \* names Create has ever registered
    hist         \* the calls returned so far in the single-volume scenario

vars == <<volumes, fs, mountTable, writer, readers, req, ret, ran, created, hist>>

Idle == [op |-> "idle", Name |-> "", Options |-> NilOptions]
Request(op, name, opts) == [op |-> op, Name |-> name, Options |-> opts]
NoRun == [cmd |-> "none", target |-> NoPath, err |-> ""]
Run(cmd, target, err) == [cmd |-> cmd, target |-> target, err |-> err]
Returned(r, resp) == [op |-> r.op, Name |-> r.Name, resp |-> resp]
NoReturn == Returned(Idle, OkResponse)

(***************************************************************************)
(* The registry d.volumes as a function on the registered names.           *)
(***************************************************************************)
Registered(vols, name) == name \in DOMAIN vols
\* A store through one shared *mountInfo: every entry ends up pointing at v.
Store_aliased(vols, name, v) ==
    [n \in (DOMAIN vols) \cup {name} |-> v]

Store(vols, name, v) ==
    [n \in (DOMAIN vols) \cup {name} |-> IF n = name THEN v ELSE vols[n]]
Delete(vols, name) == [n \in (DOMAIN vols) \ {name} |-> vols[n]]

\* serverConfig filled from the options (Create).
serverConfig(o) ==
    [endpoint |-> Opt(o, "endpoint"), bucket |-> Opt(o, "bucket"),
     secretKey |-> Opt(o, "secret-key"), accessKey |-> Opt(o, "access-key")]

\* A mountInfo that counts its creator as a connection.
mountInfo_counted(root, name, o) ==
    [serverconfig |-> serverConfig(o), mountPoint |-> Join(root, name),
     connections |-> 1]

\* mountInfo as Create builds it: connections has Go's zero value.
mountInfo(root, name, o) ==
    [serverconfig |-> serverConfig(o), mountPoint |-> Join(root, name),
     connections |-> 0]

(***************************************************************************)
(* Create.                                                                 *)
(***************************************************************************)
\* The option checks of Create: the error text, "" when all are set.
ValidateOptions_noSecretKey(o) ==
    IF o.isNil THEN ErrNoOptions
    ELSE IF Opt(o, "endpoint") = "" THEN ErrEndpoint
    ELSE IF Opt(o, "bucket") = "" THEN ErrBucket
    ELSE IF Opt(o, "access-key") = "" THEN ErrAccessKey
    ELSE ""

ValidateOptions(o) ==
    IF o.isNil THEN ErrNoOptions
    ELSE IF Opt(o, "endpoint") = "" THEN ErrEndpoint
    ELSE IF Opt(o, "bucket") = "" THEN ErrBucket
    ELSE IF Opt(o, "access-key") = "" THEN ErrAccessKey
    ELSE IF Opt(o, "secret-key") = "" THEN ErrSecretKey
    ELSE ""

\* The body of Create: the registry and the response it leaves.  The check
\* for an already registered name has an empty branch, so the entry is
\* stored whether or not the name is registered.
CreateBody(vols, r) ==
    IF r.Name = "" THEN [volumes |-> vols, resp |-> errorResponse(ErrNameEmpty)]
    ELSE IF ValidateOptions(r.Options) # ""
    THEN [volumes |-> vols, resp |-> errorResponse(ValidateOptions(r.Options))]
    ELSE [volumes |-> Store(vols, r.Name, mountInfo(mountRoot, r.Name, r.Options)),
          resp |-> OkResponse]

(***************************************************************************)
(* Remove.                                                                 *)
(***************************************************************************)
\* os.RemoveAll(path): deletes the tree when it succeeds.
RemoveAll(f, path, ok) == IF ok THEN [f EXCEPT ![path] = "absent"] ELSE f

\* The body of Remove.  removeOK: os.RemoveAll succeeds.  ran records the
\* os.RemoveAll call and its error.
RemoveBody_deleteFirst(vols, f, r, removeOK) ==
    IF ~Registered(vols, r.Name)
    THEN [volumes |-> vols, fs |-> f, ran |-> NoRun, resp |-> errorResponse(ErrNotFound)]
    ELSE LET v == vols[r.Name] IN
         IF v.connections = 0
         THEN IF ~removeOK
              THEN [volumes |-> Delete(vols, r.Name), fs |-> f,
                    ran |-> Run("RemoveAll", v.mountPoint, ErrOS),
                    resp |-> errorResponse(ErrOS)]
              ELSE [volumes |-> Delete(vols, r.Name),
                    fs |-> RemoveAll(f, v.mountPoint, TRUE),
                    ran |-> Run("RemoveAll", v.mountPoint, ""), resp |-> OkResponse]
         ELSE [volumes |-> vols, fs |-> f, ran |-> NoRun,
               resp |-> errorResponse(ErrInUse)]

RemoveBody(vols, f, r, removeOK) ==
    IF ~Registered(vols, r.Name)
    THEN [volumes |-> vols, fs |-> f, ran |-> NoRun, resp |-> errorResponse(ErrNotFound)]
    ELSE LET v == vols[r.Name] IN
         IF v.connections = 0
         THEN IF ~removeOK
              THEN [volumes |-> vols, fs |-> f,
                    ran |-> Run("RemoveAll", v.mountPoint, ErrOS),
                    resp |-> errorResponse(ErrOS)]
              ELSE [volumes |-> Delete(vols, r.Name),
                    fs |-> RemoveAll(f, v.mountPoint, TRUE),
                    ran |-> Run("RemoveAll", v.mountPoint, ""), resp |-> OkResponse]
         ELSE [volumes |-> vols, fs |-> f, ran |-> NoRun,
               resp |-> errorResponse(ErrInUse)]

(***************************************************************************)
(* Path, Get, List, Capabilities.                                          *)
(***************************************************************************)
PathBody_noCheck(vols, r) ==
    Response("", Join(mountRoot, r.Name), {}, {}, "")

PathBody(vols, r) ==
    IF ~Registered(vols, r.Name) THEN errorResponse(ErrNotFound)
    ELSE Response("", vols[r.Name].mountPoint, {}, {}, "")

GetBody(vols, r) ==
    IF ~Registered(vols, r.Name) THEN errorResponse(ErrNotFound)
    ELSE Response("", NoPath,
                  {[Name |-> r.Name, Mountpoint |-> vols[r.Name].mountPoint]}, {}, "")

\* List answering with the names only.
ListBody_namesOnly(vols) ==
    Response("", NoPath, {},
             {[Name |-> n, Mountpoint |-> NoPath] : n \in DOMAIN vols}, "")

ListBody(vols) ==
    Response("", NoPath, {},
             {[Name |-> n, Mountpoint |-> vols[n].mountPoint] : n \in DOMAIN vols}, "")

CapabilitiesBody == Response("", NoPath, {}, {}, "local")

(***************************************************************************)
(* Mount.                                                                  *)
(***************************************************************************)
\* mountVolume and unmountVolume run a shell command and return its error:
\* "" stands for nil.
mountVolume(v, ok) == IF ok THEN "" ELSE ErrExec
unmountVolume(target, ok) == IF ok THEN "" ELSE ErrExec

\* The mountInfo after Mount has called mountVolume with result err: Mount
\* assigns nothing to it, on either result.
AfterMount_countFirst(v, err) == [v EXCEPT !.connections = v.connections + 1]

AfterMount(v, err) == v

\* os.MkdirAll(path, 0755) when it succeeds.
MkdirAll_nothing(f, path) == f

MkdirAll(f, path) == [f EXCEPT ![path] = "dir"]

\* fi != nil && !fi.IsDir(): os.Lstat found something that is no directory.
NotDirectory_never(f, path) == FALSE

NotDirectory(f, path) == f[path] = "file"

\* The body of Mount.  lstatOK: os.Lstat returns nil or "not exist" (as the
\* path is); mkdirOK: os.MkdirAll succeeds; mountOK: the mount command exits 0.
MountBody(vols, f, mt, r, lstatOK, mkdirOK, mountOK) ==
    LET same(resp) == [volumes |-> vols, fs |-> f, mountTable |-> mt,
                       ran |-> NoRun, resp |-> resp]
    IN
    IF ~Registered(vols, r.Name) THEN same(errorResponse(ErrNotFound))
    ELSE
    LET v == vols[r.Name]
        p == v.mountPoint
        ok(vv) == Response("", vv.mountPoint, {}, {}, "")
    IN
    IF v.connections > 0
    THEN [volumes |-> Store(vols, r.Name, [v EXCEPT !.connections = v.connections + 1]),
          fs |-> f, mountTable |-> mt, ran |-> NoRun, resp |-> ok(v)]
    ELSE IF ~lstatOK THEN same(errorResponse(ErrOS))
    ELSE IF f[p] = "absent" /\ ~mkdirOK THEN same(errorResponse(ErrOS))
    ELSE IF NotDirectory(f, p) THEN same(errorResponse(ErrNotDir))
    ELSE
    LET f2 == IF f[p] = "absent" THEN MkdirAll(f, p) ELSE f
        err == mountVolume(v, mountOK)
        v2 == AfterMount(v, err)
    IN
    [volumes |-> Store(vols, r.Name, v2), fs |-> f2,
     mountTable |-> IF err = "" THEN mt \cup {p} ELSE mt,
     ran |-> Run("mount", p, err),
     resp |-> IF err = "" THEN ok(v2) ELSE errorResponse(err)]

(***************************************************************************)
(* Unmount.                                                                *)
(***************************************************************************)
\* The mountInfo after the branch connections <= 1 of Unmount has called
\* unmountVolume with result err.
AfterUnmount_countFirst(v, err) == [v EXCEPT !.connections = v.connections - 1]

AfterUnmount(v, err) == IF err = "" THEN [v EXCEPT !.connections = 0] ELSE v

\* v.connections <= 1: this Unmount is the one that unmounts.
LastConnection_exactlyOne(v) == v.connections = 1
LastConnection_onlyWhenCounted(v) == v.connections >= 1

LastConnection(v) == v.connections <= 1

UnmountBody(vols, mt, r, umountOK) ==
    IF ~Registered(vols, r.Name)
    THEN [volumes |-> vols, mountTable |-> mt, ran |-> NoRun,
          resp |-> errorResponse(ErrNotFound)]
    ELSE
    LET v == vols[r.Name] IN
    IF LastConnection(v)
    THEN LET err == unmountVolume(v.mountPoint, umountOK) IN
         [volumes |-> Store(vols, r.Name, AfterUnmount(v, err)),
          mountTable |-> IF err = "" THEN mt \ {v.mountPoint} ELSE mt,
          ran |-> Run("umount", v.mountPoint, err),
          resp |-> IF err = "" THEN OkResponse ELSE errorResponse(err)]
    ELSE [volumes |-> Store(vols, r.Name, [v EXCEPT !.connections = v.connections - 1]),
          mountTable |-> mt, ran |-> NoRun, resp |-> OkResponse]

(***************************************************************************)
(* The requests.                                                           *)
(***************************************************************************)
NamedOps == {"Remove", "Mount", "Unmount", "Get"}
LockRequests ==
    { Request("Create", n, o) : n \in VolumeNames, o \in OptionValues }
    \cup { Request(op, n, NilOptions) : op \in NamedOps, n \in VolumeNames }
    \cup { Request("List", "", NilOptions) }
RLockRequests == { Request("Path", n, NilOptions) : n \in VolumeNames }

(***************************************************************************)
(* Initial state: newMinfsDriver, on a file system whose mount paths may   *)
(* already exist.                                                          *)
(***************************************************************************)
newMinfsDriver == [n \in {} |-> mountInfo(mountRoot, n, NilOptions)]

Init ==
    /\ volumes = newMinfsDriver
    /\ fs \in [Paths -> {"absent", "dir", "file"}]
    /\ mountTable = {}
    /\ writer = 0
    /\ readers = {}
    /\ req = [t \in Threads |-> Idle]
    /\ ret = NoReturn
    /\ ran = NoRun
    /\ created = {}
    /\ hist = <<>>

(***************************************************************************)
(* The mutex.  Lock waits until no thread holds the mutex in either mode,  *)
(* RLock until no thread holds it exclusively.  A dispatch clears the      *)
(* record of the previous call.                                            *)
(***************************************************************************)
\* A handler that starts without waiting for the mutex.
LockStep_noWait(t, r) ==
    /\ req[t] = Idle
    /\ writer' = t
    /\ req' = [req EXCEPT ![t] = r]
    /\ ret' = NoReturn
    /\ ran' = NoRun
    /\ UNCHANGED <<volumes, fs, mountTable, readers, created>>

LockStep(t, r) ==
    /\ req[t] = Idle
    /\ writer = 0 /\ readers = {}
    /\ writer' = t
    /\ req' = [req EXCEPT ![t] = r]
    /\ ret' = NoReturn
    /\ ran' = NoRun
    /\ UNCHANGED <<volumes, fs, mountTable, readers, created>>

RLockStep(t, r) ==
    /\ req[t] = Idle
    /\ writer = 0
    /\ readers' = readers \cup {t}
    /\ req' = [req EXCEPT ![t] = r]
    /\ ret' = NoReturn
    /\ ran' = NoRun
    /\ UNCHANGED <<volumes, fs, mountTable, writer, created>>

\* Thread t is inside the critical section of handler op.
Serving(t, op) == req[t].op = op /\ (writer = t \/ t \in readers)

\* defer d.Unlock() / defer d.RUnlock(), with the response handed back.
Return(t, resp) ==
    /\ ret' = Returned(req[t], resp)
    /\ req' = [req EXCEPT ![t] = Idle]
    /\ writer' = IF writer = t THEN 0 ELSE writer
    /\ readers' = readers \ {t}

(***************************************************************************)
(* The handlers.                                                           *)
(***************************************************************************)
CreateStep(t) ==
    /\ Serving(t, "Create")
    /\ LET out == CreateBody(volumes, req[t]) IN
       /\ volumes' = out.volumes
       /\ created' = IF out.resp.Err = "" THEN created \cup {req[t].Name} ELSE created
       /\ ran' = NoRun
       /\ Return(t, out.resp)
    /\ UNCHANGED <<fs, mountTable>>

RemoveStep(t) ==
    /\ Serving(t, "Remove")
    /\ \E removeOK \in BOOLEAN :
         LET out == RemoveBody(volumes, fs, req[t], removeOK) IN
         /\ volumes' = out.volumes
         /\ fs' = out.fs
         /\ ran' = out.ran
         /\ Return(t, out.resp)
    /\ UNCHANGED <<mountTable, created>>

PathStep(t) ==
    /\ Serving(t, "Path")
    /\ ran' = NoRun
    /\ Return(t, PathBody(volumes, req[t]))
    /\ UNCHANGED <<volumes, fs, mountTable, created>>

MountStep(t) ==
    /\ Serving(t, "Mount")
    /\ \E lstatOK \in BOOLEAN, mkdirOK \in BOOLEAN, mountOK \in BOOLEAN :
         LET out == MountBody(volumes, fs, mountTable, req[t], lstatOK, mkdirOK, mountOK) IN
         /\ volumes' = out.volumes
         /\ fs' = out.fs
         /\ mountTable' = out.mountTable
         /\ ran' = out.ran
         /\ Return(t, out.resp)
    /\ UNCHANGED created

UnmountStep(t) ==
    /\ Serving(t, "Unmount")
    /\ \E umountOK \in BOOLEAN :
         LET out == UnmountBody(volumes, mountTable, req[t], umountOK) IN
         /\ volumes' = out.volumes
         /\ mountTable' = out.mountTable
         /\ ran' = out.ran
         /\ Return(t, out.resp)
    /\ UNCHANGED <<fs, created>>

GetStep(t) ==
    /\ Serving(t, "Get")
    /\ ran' = NoRun
    /\ Return(t, GetBody(volumes, req[t]))
    /\ UNCHANGED <<volumes, fs, mountTable, created>>

ListStep(t) ==
    /\ Serving(t, "List")
    /\ ran' = NoRun
    /\ Return(t, ListBody(volumes))
    /\ UNCHANGED <<volumes, fs, mountTable, created>>

\* Capabilities takes no lock and reads nothing.
CapabilitiesStep(t) ==
    /\ req[t] = Idle
    /\ ret' = Returned(Request("Capabilities", "", NilOptions), CapabilitiesBody)
    /\ ran' = NoRun
    /\ UNCHANGED <<volumes, fs, mountTable, writer, readers, req, created>>

(***************************************************************************)
(* The driver: any thread serves any request.                              *)
(***************************************************************************)
Lock(t) == \E r \in LockRequests : LockStep(t, r) /\ UNCHANGED hist
RLock(t) == \E r \in RLockRequests : RLockStep(t, r) /\ UNCHANGED hist
Create(t) == CreateStep(t) /\ UNCHANGED hist
Remove(t) == RemoveStep(t) /\ UNCHANGED hist
Path(t) == PathStep(t) /\ UNCHANGED hist
Mount(t) == MountStep(t) /\ UNCHANGED hist
Unmount(t) == UnmountStep(t) /\ UNCHANGED hist
Get(t) == GetStep(t) /\ UNCHANGED hist
List(t) == ListStep(t) /\ UNCHANGED hist
Capabilities(t) == CapabilitiesStep(t) /\ UNCHANGED hist

Next ==
    \E t \in Threads :
        \/ Lock(t)
        \/ RLock(t)
        \/ Create(t)
        \/ Remove(t)
        \/ Path(t)
        \/ Mount(t)
        \/ Unmount(t)
        \/ Get(t)
        \/ List(t)
        \/ Capabilities(t)

Spec == Init /\ [][Next]_vars

(***************************************************************************)
(* The life of one volume.  The driver has just served Create("a") with    *)
(* valid options; the threads then issue Mount, Unmount and Remove on "a", *)
(* and hist records every call as it returns: the operation, the error     *)
(* text of its response, the backend command it ran with that command's    *)
(* error, and the volume's connections afterwards (-1 once removed).  The  *)
(* thread that served the call is recorded in the concurrent-Mount         *)
(* scenario only (0 elsewhere).                                            *)
(***************************************************************************)
OneName == "a"
OneRequests == { Request(op, OneName, NilOptions) : op \in {"Mount", "Unmount", "Remove"} }

Connections(vols, name) == IF Registered(vols, name) THEN vols[name].connections ELSE -1

Event(t, rt, rn, vols) ==
    [thread |-> t, op |-> rt.op, Err |-> rt.resp.Err, cmd |-> rn.cmd, cmdErr |-> rn.err,
     conn |-> Connections(vols, rt.Name)]

InitOne ==
    /\ volumes = CreateBody(newMinfsDriver, Request("Create", OneName, MakeOptions(OptionsA))).volumes
    /\ fs \in { f \in [Paths -> {"absent", "dir", "file"}] :
                   \A p \in Paths \ {Join(mountRoot, OneName)} : f[p] = "absent" }
    /\ mountTable = {}
    /\ writer = 0
    /\ readers = {}
    /\ req = [t \in Threads |-> Idle]
    /\ ret = Returned(Request("Create", OneName, MakeOptions(OptionsA)), OkResponse)
    /\ ran = NoRun
    /\ created = {OneName}
    /\ hist = <<>>

OneLock(t) ==
    /\ Len(hist) < MaxHist
    /\ \E r \in OneRequests : LockStep(t, r)
    /\ UNCHANGED hist

OneMount(t) == MountStep(t) /\ hist' = Append(hist, Event(0, ret', ran', volumes'))
OneUnmount(t) == UnmountStep(t) /\ hist' = Append(hist, Event(0, ret', ran', volumes'))
OneRemove(t) == RemoveStep(t) /\ hist' = Append(hist, Event(0, ret', ran', volumes'))

NextOne ==
    \E t \in Threads :
        \/ OneLock(t)
        \/ OneMount(t)
        \/ OneUnmount(t)
        \/ OneRemove(t)

SpecOne == InitOne /\ [][NextOne]_vars

(***************************************************************************)
(* Concurrent Mounts of one fresh volume: every thread issues Mount("a")   *)
(* once, in any order of arrival at the mutex.                             *)
(***************************************************************************)
HasCalled(t) == \E i \in 1..Len(hist) : hist[i].thread = t

ManyLock(t) ==
    /\ ~HasCalled(t)
    /\ LockStep(t, Request("Mount", OneName, NilOptions))
    /\ UNCHANGED hist

ManyMount(t) == MountStep(t) /\ hist' = Append(hist, Event(t, ret', ran', volumes'))

NextMany ==
    \E t \in Threads :
        \/ ManyLock(t)
        \/ ManyMount(t)

SpecMany == InitOne /\ [][NextMany]_vars

(***************************************************************************)
(* Vocabulary of the properties.                                           *)
(***************************************************************************)
\* This step is thread t returning from handler op.
Returns(t, op) == Serving(t, op) /\ req'[t] = Idle

\* No operation is in progress.
Quiescent == writer = 0 /\ readers = {} /\ \A t \in Threads : req[t] = Idle

\* In the one-volume scenario: the connections before the i-th recorded call.
Before(i) == IF i = 1 THEN 0 ELSE hist[i - 1].conn

RanCount(cmd) == Cardinality({ i \in 1..Len(hist) : hist[i].cmd = cmd })

Succeeded(i, op) == hist[i].op = op /\ hist[i].Err = ""

\* The i-th recorded call is a Mount whose backend mount failed.
BackendMountFailed(i) ==
    hist[i].op = "Mount" /\ hist[i].cmd = "mount" /\ hist[i].cmdErr # ""

\* The number of holders after the first k recorded calls: successful Mounts
\* not yet matched by a successful Unmount.
RECURSIVE Holders(_)
Holders(k) ==
    IF k = 0 THEN 0
    ELSE LET h == Holders(k - 1) IN
         IF hist[k].Err # "" THEN h
         ELSE IF hist[k].op = "Mount" THEN h + 1
         ELSE IF hist[k].op = "Unmount" THEN (IF h > 0 THEN h - 1 ELSE 0)
         ELSE 0

(***************************************************************************)
(* C1.  On one volume, the backend mount runs on every step of connections *)
(* from 0 to 1 and the backend unmount on every step from 1 to 0; a Mount  *)
(* at connections > 0 and an Unmount at connections > 1 run no backend     *)
(* command; and Mount, Mount, Unmount, Unmount, all succeeding on a fresh  *)
(* volume, run the backend mount exactly once and the backend unmount      *)
(* exactly once.                                                           *)
(***************************************************************************)
MountMountUnmountUnmount ==
    /\ Len(hist) = 4
    /\ Succeeded(1, "Mount") /\ Succeeded(2, "Mount")
    /\ Succeeded(3, "Unmount") /\ Succeeded(4, "Unmount")

C1_BackendOncePerEdge ==
    /\ \A i \in 1..Len(hist) :
         /\ Succeeded(i, "Mount") /\ Before(i) = 0 /\ hist[i].conn = 1
              => hist[i].cmd = "mount"
         /\ Succeeded(i, "Unmount") /\ Before(i) = 1 /\ hist[i].conn = 0
              => hist[i].cmd = "umount"
         /\ hist[i].op = "Mount" /\ Before(i) > 0 => hist[i].cmd = "none"
         /\ hist[i].op = "Unmount" /\ Before(i) > 1 => hist[i].cmd = "none"
    /\ MountMountUnmountUnmount => RanCount("mount") = 1 /\ RanCount("umount") = 1

(***************************************************************************)
(* C2.  When every thread has returned from one successful Mount of the    *)
(* fresh volume, and nothing else was called, the backend mount has run    *)
(* exactly once and connections equals the number of threads.              *)
(***************************************************************************)
EveryThreadMounted ==
    /\ Len(hist) = NumThreads
    /\ \A i \in 1..Len(hist) : Succeeded(i, "Mount")
    /\ \A t \in Threads : \E i \in 1..Len(hist) : hist[i].thread = t
    /\ Quiescent

C2_ConcurrentMountsMountOnce ==
    EveryThreadMounted =>
        RanCount("mount") = 1 /\ Connections(volumes, OneName) = NumThreads

(***************************************************************************)
(* C3.  A Mount that succeeds on a registered volume with connections 0    *)
(* leaves connections at 1 and returns the stored mount point.             *)
(***************************************************************************)
C3_FirstMountCounts ==
    [][\A t \in Threads :
         LET n == req[t].Name IN
         (/\ Returns(t, "Mount")
          /\ Registered(volumes, n)
          /\ volumes[n].connections = 0
          /\ ret'.resp.Err = "")
         => /\ Registered(volumes', n)
            /\ volumes'[n].connections = 1
            /\ ret'.resp.Mountpoint = volumes[n].mountPoint]_vars

(***************************************************************************)
(* C4.  With no operation in progress, every registered volume has an      *)
(* active backend mount exactly when its connections are above 0.          *)
(***************************************************************************)
C4_MountedIffReferenced ==
    Quiescent =>
        \A n \in DOMAIN volumes :
            (volumes[n].mountPoint \in mountTable) <=> (volumes[n].connections > 0)

(***************************************************************************)
(* C5.  Remove on a volume that has holders (successful Mounts not yet     *)
(* unmounted) fails with the in-use error and leaves the volume            *)
(* registered.                                                             *)
(***************************************************************************)
C5_RemoveInUseFails ==
    \A i \in 1..Len(hist) :
        hist[i].op = "Remove" /\ Holders(i - 1) > 0
            => hist[i].Err = ErrInUse /\ hist[i].conn = Before(i)

(***************************************************************************)
(* C6.  A Mount at connections 0 whose backend mount fails returns an      *)
(* error and leaves connections at 0, and the Mount that follows it on the *)
(* volume runs the backend mount again (unless os.Lstat fails first).      *)
(***************************************************************************)
C6_FailedMountRetries ==
    \A i \in 1..Len(hist) :
        /\ BackendMountFailed(i) /\ Before(i) = 0
             => hist[i].Err # "" /\ hist[i].conn = 0
        /\ i > 1 /\ BackendMountFailed(i - 1) /\ hist[i].op = "Mount" /\ hist[i].Err # ErrOS
             => hist[i].cmd = "mount"

C6_Witness ==
    \E i \in 2..Len(hist) :
        /\ BackendMountFailed(i - 1) /\ hist[i - 1].Err # "" /\ hist[i - 1].conn = 0
        /\ hist[i].op = "Mount" /\ hist[i].cmd = "mount"

(***************************************************************************)
(* C7.  An Unmount at connections <= 1 whose backend unmount fails returns *)
(* an error and leaves the registry, connections included, and the mount   *)
(* table as they were.                                                     *)
(***************************************************************************)
C7_FailedUnmountKeepsCount ==
    [][\A t \in Threads :
         LET n == req[t].Name IN
         (/\ Returns(t, "Unmount")
          /\ Registered(volumes, n)
          /\ volumes[n].connections <= 1
          /\ ran'.cmd = "umount" /\ ran'.err # "")
         => /\ ret'.resp.Err # ""
            /\ volumes' = volumes
            /\ mountTable' = mountTable]_vars

C7_Witness ==
    /\ ret.op = "Unmount" /\ ret.resp.Err # ""
    /\ ran.cmd = "umount" /\ ran.err # ""
    /\ Registered(volumes, ret.Name) /\ volumes[ret.Name].connections <= 1

(***************************************************************************)
(* C8.  Create with an empty name, nil options or an empty or missing      *)
(* endpoint, bucket, access-key or secret-key returns an error and leaves  *)
(* the registry, and so what List returns, as it was.                      *)
(***************************************************************************)
InvalidCreate(r) ==
    \/ r.Name = ""
    \/ r.Options.isNil
    \/ \E k \in OptionKeys : k \notin DOMAIN r.Options.m \/ r.Options.m[k] = ""

C9_DuplicateCreateRejected ==
    [][\A t \in Threads :
         (/\ Returns(t, "Create")
          /\ ~InvalidCreate(req[t])
          /\ Registered(volumes, req[t].Name))
         => /\ ret'.resp.Err # ""
            /\ volumes' = volumes]_vars

(***************************************************************************)
(* C10.  Path and Get on a name that Create never registered return the    *)
(* not-found error and change nothing.                                     *)
(***************************************************************************)
C10_NeverCreatedNotFound ==
    [][\A t \in Threads :
         (Returns(t, "Path") \/ Returns(t, "Get")) /\ req[t].Name \notin created
         => /\ ret'.resp = errorResponse(ErrNotFound)
            /\ UNCHANGED <<volumes, fs, mountTable, created>>]_vars

C10_Witness ==
    /\ ret.op = "Path" /\ ret.Name # "" /\ ret.Name \notin created
    /\ ret.resp = errorResponse(ErrNotFound)
    /\ \E n \in DOMAIN volumes : n # ret.Name /\ volumes[n].mountPoint \in mountTable

(***************************************************************************)
(* C11.  Remove on a registered volume with connections 0 calls            *)
(* os.RemoveAll on its mount point.  When that succeeds the path is gone   *)
(* and the entry is removed from the registry, the other entries kept;     *)
(* when it fails Remove returns an error and registry and file system are  *)
(* as they were.                                                           *)
(***************************************************************************)
C11_RemoveUnreferenced ==
    [][\A t \in Threads :
         LET n == req[t].Name IN
         (/\ Returns(t, "Remove")
          /\ Registered(volumes, n)
          /\ volumes[n].connections = 0)
         => /\ ran'.cmd = "RemoveAll" /\ ran'.target = volumes[n].mountPoint
            /\ ran'.err = ""
                 => /\ ret'.resp.Err = ""
                    /\ fs'[volumes[n].mountPoint] = "absent"
                    /\ volumes' = Delete(volumes, n)
                    /\ ~Registered(volumes', n)
            /\ ran'.err # ""
                 => /\ ret'.resp.Err # ""
                    /\ volumes' = volumes
                    /\ fs' = fs]_vars

C11_Witness ==
    /\ ret.op = "Remove" /\ ret.resp.Err # ""
    /\ ran.cmd = "RemoveAll" /\ ran.err # ""
    /\ Registered(volumes, ret.Name) /\ volumes[ret.Name].connections = 0
    /\ fs[volumes[ret.Name].mountPoint] = "dir"

(***************************************************************************)
(* C12.  The connections of every registered volume are never negative.    *)
(***************************************************************************)
C12_ConnectionsNonNegative ==
    \A n \in DOMAIN volumes : volumes[n].connections >= 0

\* An Unmount has just succeeded on a volume that has no backend mount and
\* no connections: an Unmount beyond the Mounts.
C12_Witness ==
    /\ ret.op = "Unmount" /\ ret.resp.Err = ""
    /\ ran.cmd = "umount" /\ ran.err = ""
    /\ Registered(volumes, ret.Name)
    /\ volumes[ret.Name].connections = 0
    /\ fs[volumes[ret.Name].mountPoint] = "absent"

(***************************************************************************)
(* C13.  The handlers that touch the registry run under the one mutex: at  *)
(* most one thread is inside Create, Remove, Mount or Unmount; while one   *)
(* is, no thread is inside Path, Get or List; and Mount and Unmount run    *)
(* their backend command holding the mutex exclusively, so at most one     *)
(* thread at a time is inside Mount.                                       *)
(***************************************************************************)
Mutating == {"Create", "Remove", "Mount", "Unmount"}
Reading == {"Path", "Get", "List"}
Inside(ops) == { t \in Threads : req[t].op \in ops }

MutualExclusion ==
    /\ Cardinality(Inside(Mutating)) <= 1
    /\ Inside(Mutating) # {} => Inside(Reading) = {}
    /\ Cardinality(Inside({"Mount"})) <= 1
    /\ \A t \in Inside(Mutating) : writer = t /\ readers = {}

BackendUnderLock ==
    \A t \in Threads :
        (Returns(t, "Mount") \/ Returns(t, "Unmount")) /\ ran'.cmd \in {"mount", "umount"}
        => /\ writer = t /\ readers = {}
           /\ \A u \in Threads \ {t} : req[u] = Idle

C13_OneLock == []MutualExclusion /\ [][BackendUnderLock]_vars

\* A thread is inside Mount holding the mutex, seeing connections == 0; every
\* other thread is outside the handlers.
C13_Witness ==
    \E t \in Threads :
        /\ req[t].op = "Mount" /\ writer = t
        /\ Registered(volumes, req[t].Name)
        /\ volumes[req[t].Name].connections = 0
        /\ \A u \in Threads \ {t} : req[u] = Idle

(***************************************************************************)
(* C14.  The backend mount runs only on a mount point that exists as a     *)
(* directory, and a mount-path directory ceases to exist only in a Remove  *)
(* that finds the volume of that mount point registered with connections 0 *)
(* and returns success.                                                    *)
(***************************************************************************)
MountOnlyOnDirectory ==
    ran'.cmd = "mount" => fs'[ran'.target] = "dir"

DirectoryDeletedOnlyByRemove ==
    \A p \in Paths :
        fs[p] = "dir" /\ fs'[p] # "dir"
        => \E t \in Threads :
             /\ Returns(t, "Remove")
             /\ Registered(volumes, req[t].Name)
             /\ volumes[req[t].Name].mountPoint = p
             /\ volumes[req[t].Name].connections = 0
             /\ ret'.resp.Err = ""

C15_MountDirectoryStep ==
    [][\A t \in Threads :
         LET n == req[t].Name IN
         (/\ Returns(t, "Mount")
          /\ Registered(volumes, n)
          /\ volumes[n].connections = 0)
         => LET p == volumes[n].mountPoint
                failed == /\ ret'.resp.Err \in {ErrOS, ErrNotDir}
                          /\ ran' = NoRun
                          /\ volumes' = volumes
                          /\ mountTable' = mountTable
            IN
            /\ fs[p] = "file" => failed /\ fs' = fs
            /\ fs[p] = "absent" /\ fs'[p] = "absent" => failed
            /\ ret'.resp.Err \in {ErrOS, ErrNotDir} => failed
            /\ fs[p] = "dir" /\ ret'.resp.Err # ErrOS
                 => /\ ran'.cmd = "mount" /\ ran'.target = p
                    /\ ret'.resp.Err \in {"", ErrExec}
                    /\ fs' = fs]_vars

C15_Witness ==
    /\ ret.op = "Mount" /\ ret.resp.Err = ErrNotDir
    /\ ran = NoRun
    /\ Registered(volumes, ret.Name)
    /\ volumes[ret.Name].connections = 0
    /\ fs[volumes[ret.Name].mountPoint] = "file"

(***************************************************************************)
(* C16.  Unmount on a registered volume with connections 0 runs the        *)
(* backend unmount on its mount point; it returns success when the command *)
(* succeeds and an error when it fails, with connections 0 either way.     *)
(***************************************************************************)
C16_UnmountAtZero ==
    [][\A t \in Threads :
         LET n == req[t].Name IN
         (/\ Returns(t, "Unmount")
          /\ Registered(volumes, n)
          /\ volumes[n].connections = 0)
         => /\ ran'.cmd = "umount" /\ ran'.target = volumes[n].mountPoint
            /\ Registered(volumes', n) /\ volumes'[n].connections = 0
            /\ ran'.err = "" => ret'.resp.Err = ""
            /\ ran'.err # "" => ret'.resp.Err # ""]_vars

\* An Unmount has just failed in the backend on a volume with connections 0
\* that has no backend mount.
C16_Witness ==
    /\ ret.op = "Unmount" /\ ret.resp.Err # ""
    /\ ran.cmd = "umount" /\ ran.err # ""
    /\ Registered(volumes, ret.Name)
    /\ volumes[ret.Name].connections = 0
    /\ volumes[ret.Name].mountPoint \notin mountTable

(***************************************************************************)
(* C17.  A Create that returns success leaves the named volume registered  *)
(* with connections 0 and mount point Join(mountRoot, name), and nothing   *)
(* else changed: no command run, file system and mount table as they were, *)
(* every other entry of the registry as it was.                            *)
(***************************************************************************)
C17_CreateRegistersOnly ==
    [][\A t \in Threads :
         LET n == req[t].Name IN
         Returns(t, "Create") /\ ret'.resp.Err = ""
         => /\ Registered(volumes', n)
            /\ volumes'[n].connections = 0
            /\ volumes'[n].mountPoint = <<mountRoot, n>>
            /\ volumes'[n].serverconfig.bucket = req[t].Options.m["bucket"]
            /\ ran' = NoRun
            /\ fs' = fs
            /\ mountTable' = mountTable
            /\ DOMAIN volumes' = DOMAIN volumes \cup {n}
            /\ \A m \in DOMAIN volumes \ {n} : volumes'[m] = volumes[m]]_vars

\* A Create has just registered a volume beside another one; its mount
\* point does not exist.
C17_Witness ==
    /\ ret.op = "Create" /\ ret.resp.Err = ""
    /\ Registered(volumes, ret.Name)
    /\ volumes[ret.Name].connections = 0
    /\ fs[volumes[ret.Name].mountPoint] = "absent"
    /\ \E m \in DOMAIN volumes : m # ret.Name

(***************************************************************************)
(* C18.  Every registered volume's mount point is mountRoot joined with    *)
(* its name; Mount, Unmount, Path, Get and List leave it as it is; Path    *)
(* and Get return the stored mount point of the named volume and List the  *)
(* stored mount point of every registered volume.                          *)
(***************************************************************************)
MountPointFromName ==
    \A n \in DOMAIN volumes : volumes[n].mountPoint = <<mountRoot, n>>

MountPointKept ==
    \A t \in Threads :
        LET n == req[t].Name IN
        /\ (\E op \in {"Mount", "Unmount", "Path", "Get", "List"} : Returns(t, op))
           => \A m \in DOMAIN volumes :
                 Registered(volumes', m) /\ volumes'[m].mountPoint = volumes[m].mountPoint
        /\ Returns(t, "Path") /\ Registered(volumes, n)
           => ret'.resp.Err = "" /\ ret'.resp.Mountpoint = volumes[n].mountPoint
        /\ Returns(t, "Get") /\ Registered(volumes, n)
           => /\ ret'.resp.Err = ""
              /\ ret'.resp.Volume = {[Name |-> n, Mountpoint |-> volumes[n].mountPoint]}
        /\ Returns(t, "List")
           => /\ ret'.resp.Err = ""
              /\ { e.Name : e \in ret'.resp.Volumes } = DOMAIN volumes
              /\ \A e \in ret'.resp.Volumes : e.Mountpoint = volumes[e.Name].mountPoint

C18_MountPointFixed == []MountPointFromName /\ [][MountPointKept]_vars

C18_Witness ==
    /\ ret.op = "List"
    /\ Cardinality(ret.resp.Volumes) = 2
    /\ \A e \in ret.resp.Volumes : e.Mountpoint = <<mountRoot, e.Name>>

(***************************************************************************)
(* C19.  Every mount point with an active backend mount belongs to a       *)
(* registered volume and exists as a directory.                            *)
(***************************************************************************)
C19_LiveMountStaysRegistered ==
    \A p \in mountTable :
        /\ \E n \in DOMAIN volumes : volumes[n].mountPoint = p
        /\ fs[p] = "dir"

(***************************************************************************)
(* C20.  A Create, Remove, Mount, Unmount, Path or Get leaves every entry  *)
(* of the registry other than the named one as it was, registered or not,  *)
(* and runs a backend command, if any, on the mount point of the named     *)
(* volume only.                                                            *)
(***************************************************************************)
NamingOps == {"Create", "Remove", "Mount", "Unmount", "Path", "Get"}

C20_OtherVolumesUntouched ==
    [][\A t \in Threads :
         LET n == req[t].Name IN
         (\E op \in NamingOps : Returns(t, op))
         => /\ DOMAIN volumes' \ {n} = DOMAIN volumes \ {n}
            /\ \A m \in DOMAIN volumes \ {n} : volumes'[m] = volumes[m]
            /\ mountTable' \ {<<mountRoot, n>>} = mountTable \ {<<mountRoot, n>>}
            /\ ran'.cmd \in {"mount", "umount"}
                 => /\ Registered(volumes, n)
                    /\ ran'.target = volumes[n].mountPoint]_vars

\* A Mount has just run the backend mount for one volume while another
\* volume is registered and mounted.
C20_Witness ==
    /\ ret.op = "Mount" /\ ran.cmd = "mount" /\ ret.resp.Err = ""
    /\ \E m \in DOMAIN volumes :
         /\ m # ret.Name
         /\ volumes[m].mountPoint \in mountTable
         /\ volumes[m].mountPoint # ran.target

====
